---- MODULE Spec2Model ----
(***************************************************************************)
(* A model of the Autelis pool-control device layer:                       *)
(*   - src/autelisapi.py: the vocabulary translators cmd_to_element and    *)
(*     val_to_text, and the TCP push-update listener status_listener.      *)
(* Byte strings and text are sequences of one-byte names ("A", "0", " ",   *)
(* "CR", "LF", "xFF"); "xFF" stands for a byte that is not valid UTF-8.    *)
(***************************************************************************)
EXTENDS Integers, Sequences, FiniteSets, TLC

VARIABLES
    \* ---- status_listener (src/autelisapi.py:118-199)
    pc,          \* position of the listener: "connect", "recv", "process",
                 \* "probe_send", "probe_recv", "returned", "raised"
    closed,      \* conn.close() has been called
    result,      \* "none" while running, "False" once returned, "raised"
    raisedBy,    \* what raised the propagated exception ("" if none)
    timeout,     \* the socket's timeout, as last set by conn.settimeout (0: unset)
    msg,         \* the local variable msg: the last bytes received
    msgSeq,      \* which non-empty read msg holds (0: none, or a zero-length read)
    calls,       \* the handler invocations so far, in order
    lastHandler, \* what the last handler invocation answered
    lastOp,      \* the last listener step taken
    probe,       \* outcome of the last probe: "none", "ok", "timeout", "wrong", "error"
    connects,    \* number of conn.connect calls
    connectFailed, \* conn.connect raised a socket error
    didRecv,     \* conn.recv has been called
    didSend,     \* conn.send has been called
    nrecv,       \* number of non-empty reads so far
    \* ---- the peer (the pool controller) and the caller
    wire,        \* bytes sent by the peer and not yet received
    sent,        \* every line the peer has put on the wire, in order
    peer,        \* "open", "closed" (the peer closed: end of stream), "error" (reset)
    pushes,      \* number of push lines the peer has sent
    replies,     \* number of probe replies the peer has sent
    answered,    \* the peer has answered the probe in flight
    shutdown,    \* the caller has signalled shutdown
    \* ---- the translators applied to one token (src/autelisapi.py:203-263)
    token,       \* the input token
    xlat,        \* the result of the translation
    xpc          \* "ready" before the translation, "done" after

VARIABLES
    \* ---- the node server (src/autelis-poly.py)
    drivers,     \* the value of every driver of every node, by node address
    uoms,        \* the uom of the temperature drivers, by node address
    ids,         \* the node definition id of every node
    currentTempUnit, \* Controller.currentTempUnit
    tpc,         \* position of each thread: "off", "idle", "fetched" (get_status
                 \* has returned), "sent" (send_command has returned), "raised"
    statusXML,   \* each thread's local statusXML in update_node_states
    httpResp,    \* what each thread's last GET of status.xml came to
    command,     \* the command being handled, with what send_command returned
    requests,    \* number of requests sent to set.cgi
    wlog,        \* the writes of the last update_node_states, in order
    ncalls,      \* number of handler calls each thread has started
    \* ---- update_thermo_drivers applied to one input
    thermoIn,    \* the node address, the heater setting and the heating status
    thpc,        \* "ready" before the call, "done" after
    \* ---- one fact about the pool, by push update and by status document
    fact,        \* the fact: its push tokens, its element and text in status.xml,
                 \* and the last status document before it
    pushed,      \* the node server's state on the push path
    ppc          \* the paths taken so far

listenerVars == <<pc, closed, result, raisedBy, timeout, msg, msgSeq, calls,
                  lastHandler, lastOp, probe, connects, connectFailed,
                  didRecv, didSend, nrecv>>
envVars == <<wire, sent, peer, pushes, replies, answered, shutdown>>
xlatVars == <<token, xlat, xpc>>
nodeVars == <<drivers, uoms, ids, currentTempUnit, tpc, statusXML, httpResp,
              command, requests, wlog, ncalls>>
thermoVars == <<thermoIn, thpc>>
pushVars == <<fact, pushed, ppc>>
serverVars == <<nodeVars, thermoVars, pushVars>>
vars == <<listenerVars, envVars, xlatVars, serverVars>>

----------------------------------------------------------------------------
(* Bounds of the model.                                                    *)

\* Number of push lines the peer sends on one connection.
MaxPush == 1
\* Number of probe replies the peer sends on one connection.
MaxReplies == 1
\* The longest read that returns only part of the bytes that are waiting.
MaxShortRead == 2
\* Number of characters after "CIR" in the tokens given to cmd_to_element.
MaxSuffix == 2
\* Number of digits of the numeric value tokens given to val_to_text.
MaxDigits == 2
\* Number of handler calls (polls, queries, commands) one thread starts.
MaxCalls == 2
\* The largest thermostat mode a SET_MODE command carries.
MaxMode == 4
\* The largest heater setting and heating status given to
\* update_thermo_drivers.
MaxSetting == 4
MaxHtstatus == 15

----------------------------------------------------------------------------
(* Bytes and text.                                                         *)

DigitSeq == <<"0", "1", "2", "3", "4", "5", "6", "7", "8", "9">>
UpperSeq == <<"A", "B", "C", "D", "E", "F", "G", "H", "I", "J", "K", "L", "M",
              "N", "O", "P", "Q", "R", "S", "T", "U", "V", "W", "X", "Y", "Z">>
LowerSeq == <<"a", "b", "c", "d", "e", "f", "g", "h", "i", "j", "k", "l", "m",
              "n", "o", "p", "q", "r", "s", "t", "u", "v", "w", "x", "y", "z">>

Range(s) == {s[i] : i \in DOMAIN s}
Digit == Range(DigitSeq)
Upper == Range(UpperSeq)

\* The character class [A-Z0-9] of the status-update pattern.
TokChar == Upper \cup Digit

IndexIn(s, c) == CHOOSE i \in DOMAIN s : s[i] = c

DigitVal(c) == IndexIn(DigitSeq, c) - 1

\* str.lower() on one character.
LowerChar(c) == IF c \in Upper THEN LowerSeq[IndexIn(UpperSeq, c)] ELSE c

\* str.lower().
Lower(s) == [i \in DOMAIN s |-> LowerChar(s[i])]

\* s[:n] and s[n:] of Python (0-based n).
Take(s, n) == SubSeq(s, 1, IF n < Len(s) THEN n ELSE Len(s))
Drop(s, n) == SubSeq(s, n + 1, Len(s))

\* str(n) for n >= 0.
RECURSIVE IntToStr(_)
IntToStr(n) ==
    IF n < 10 THEN <<DigitSeq[n + 1]>>
    ELSE Append(IntToStr(n \div 10), DigitSeq[(n % 10) + 1])

RECURSIVE DecimalValue(_)
DecimalValue(s) ==
    IF s = <<>> THEN 0
    ELSE 10 * DecimalValue(SubSeq(s, 1, Len(s) - 1)) + DigitVal(s[Len(s)])

\* int(s) on a string of the characters [A-Z0-9]: the decimal value, or
\* ValueError when s is empty or holds a character that is no digit.
ParseInt(s) ==
    IF s # <<>> /\ \A i \in DOMAIN s : s[i] \in Digit
    THEN [raised |-> FALSE, value |-> DecimalValue(s)]
    ELSE [raised |-> TRUE, value |-> 0]

Returns(s) == [raised |-> FALSE, value |-> s]
Raises == [raised |-> TRUE, value |-> <<>>]

----------------------------------------------------------------------------
(* The vocabulary translators.                                             *)

\* cmd_to_element: [raised, value], raised when int() raises ValueError.
cmd_to_element(cmd) ==
    IF Take(cmd, 3) = <<"C", "I", "R">> THEN
        LET circuitNum == ParseInt(Drop(cmd, 3)) IN
        IF circuitNum.raised THEN Raises
        ELSE IF circuitNum.value >= 41 /\ circuitNum.value <= 50
        THEN Returns(<<"f", "e", "a", "t", "u", "r", "e">> \o IntToStr(circuitNum.value - 40))
        ELSE Returns(<<"c", "i", "r", "c", "u", "i", "t">> \o Drop(cmd, 3))
    ELSE IF cmd = <<"A", "I", "R", "T", "M", "P">> THEN Returns(<<"a", "i", "r", "t", "e", "m", "p">>)
    ELSE IF cmd = <<"S", "P", "A", "T", "M", "P">> THEN Returns(<<"s", "p", "a", "t", "e", "m", "p">>)
    ELSE IF cmd = <<"S", "O", "L", "H", "T">> THEN Returns(<<"s", "o", "l", "a", "r", "h", "t">>)
    ELSE IF cmd = <<"S", "O", "L", "T", "M", "P">> THEN Returns(<<"s", "o", "l", "a", "r", "t", "e", "m", "p">>)
    ELSE IF cmd = <<"W", "F", "A", "L", "L">> THEN Returns(<<"w", "a", "t", "e", "r", "f", "a", "l", "l">>)
    ELSE IF cmd = <<"C", "L", "E", "A", "N">> THEN Returns(<<"c", "l", "e", "a", "n", "e", "r">>)
    ELSE IF cmd = <<"O", "P", "T", "I", "O", "N", "S">> THEN Returns(<<"d", "i", "p">>)
    ELSE IF cmd = <<"U", "N", "I", "T", "S">> THEN Returns(<<"t", "e", "m", "p", "u", "n", "i", "t", "s">>)
    ELSE IF cmd = <<"P", "O", "O", "L", "T", "M", "P">> THEN Returns(<<"p", "o", "o", "l", "t", "e", "m", "p">>)
    ELSE IF cmd = <<"P", "O", "O", "L", "T", "M", "P", "2">> THEN Returns(<<"p", "o", "o", "l", "t", "e", "m", "p">>)
    ELSE Returns(Lower(cmd))

\* A val_to_text without the branch for SOLAR.
val_to_text_NoSolar(val) ==
    IF val = <<"A", "U", "T", "O">> THEN <<"0">>
    ELSE IF val = <<"S", "E", "R", "V", "I", "C", "E">> THEN <<"1">>
    ELSE IF val = <<"T", "I", "M", "E", "O", "U", "T">> THEN <<"2">>
    ELSE IF val = <<"T", "R", "U", "E">> THEN <<"1">>
    ELSE IF val = <<"F", "A", "L", "S", "E">> THEN <<"0">>
    ELSE IF val = <<"T">> THEN <<"1">>
    ELSE IF val = <<"F">> THEN <<"0">>
    ELSE IF val = <<"O", "N">> THEN <<"1">>
    ELSE IF val = <<"O", "F", "F">> THEN <<"0">>
    ELSE IF val = <<"H", "E", "A", "T", "E", "R">> THEN <<"1">>
    ELSE IF val = <<"S", "O", "L", "P", "R", "E", "F">> THEN <<"2">>
    ELSE val

val_to_text(val) ==
    IF val = <<"A", "U", "T", "O">> THEN <<"0">>
    ELSE IF val = <<"S", "E", "R", "V", "I", "C", "E">> THEN <<"1">>
    ELSE IF val = <<"T", "I", "M", "E", "O", "U", "T">> THEN <<"2">>
    ELSE IF val = <<"T", "R", "U", "E">> THEN <<"1">>
    ELSE IF val = <<"F", "A", "L", "S", "E">> THEN <<"0">>
    ELSE IF val = <<"T">> THEN <<"1">>
    ELSE IF val = <<"F">> THEN <<"0">>
    ELSE IF val = <<"O", "N">> THEN <<"1">>
    ELSE IF val = <<"O", "F", "F">> THEN <<"0">>
    ELSE IF val = <<"H", "E", "A", "T", "E", "R">> THEN <<"1">>
    ELSE IF val = <<"S", "O", "L", "P", "R", "E", "F">> THEN <<"2">>
    ELSE IF val = <<"S", "O", "L", "A", "R">> THEN <<"3">>
    ELSE val

----------------------------------------------------------------------------
(* The wire protocol.                                                      *)

BUFFER_SIZE == 32
IdleTimeout == 600
ProbeTimeout == 2

\* b"!00 OPMODE="
TEST_RTN_SUCCESS == <<"!", "0", "0", " ", "O", "P", "M", "O", "D", "E", "=">>

\* bytes.decode("utf-8") raises UnicodeDecodeError on a byte sequence that is
\* not valid UTF-8; the decoded text of valid bytes is the same sequence.
Decodable(b) == "xFF" \notin Range(b)

At(s, i) == IF i \in DOMAIN s THEN s[i] ELSE ""

\* The length of the longest run of [A-Z0-9] in s from position i.
RECURSIVE RunLen(_, _)
RunLen(s, i) == IF At(s, i) \in TokChar THEN 1 + RunLen(s, i + 1) ELSE 0

\* sub in s, on bytes.
Contains(s, sub) ==
    \E i \in 0..(Len(s) - Len(sub)) : SubSeq(s, i + 1, i + Len(sub)) = sub

\* re.match(r"!00 ([A-Z0-9]+)=([A-Z0-9]+) ?[FC]?\r\n", s): anchored at the
\* start of s only. Both groups are greedy, and no shorter value group can
\* match where the longest one does not (the character after a shorter group
\* would be F or C followed by the character that already failed to be "\r"),
\* so the match is decided by the longest runs.
StatusMatch(s) ==
    LET c  == RunLen(s, 5)
        eq == 5 + c
        v  == RunLen(s, eq + 1)
        p  == eq + 1 + v
        p1 == IF At(s, p) = " " THEN p + 1 ELSE p
        p2 == IF At(s, p1) \in {"F", "C"} THEN p1 + 1 ELSE p1
    IN  [ok  |-> /\ Take(s, 4) = <<"!", "0", "0", " ">>
                 /\ c >= 1
                 /\ At(s, eq) = "="
                 /\ v >= 1
                 /\ At(s, p2) = "CR"
                 /\ At(s, p2 + 1) = "LF",
         cmd |-> SubSeq(s, 5, eq - 1),
         val |-> SubSeq(s, eq + 1, p - 1),
         end |-> p2 + 1]

----------------------------------------------------------------------------
(* The peer: what the pool controller puts on the wire.                    *)

CRLF == <<"CR", "LF">>

\* "!00 CIR41=1\r\n"
LineCircuit == <<"!", "0", "0", " ", "C", "I", "R", "4", "1", "=", "1">> \o CRLF
\* "!00 AIRTMP=78 F\r\n"
LineAirTemp == <<"!", "0", "0", " ", "A", "I", "R", "T", "M", "P", "=", "7", "8", " ", "F">> \o CRLF
\* "?01\r\n": a line that is no status update
LineNoise == <<"?", "0", "1">> \o CRLF
\* b"\xff\r\n": line noise that is not valid UTF-8
LineBadByte == <<"xFF">> \o CRLF
\* "!00 CIRX=1\r\n": a status update whose token starts with CIR without a number
LineCirX == <<"!", "0", "0", " ", "C", "I", "R", "X", "=", "1">> \o CRLF

PushLines == {LineCircuit, LineAirTemp, LineNoise, LineBadByte, LineCirX}

\* "!00 OPMODE=AUTO\r\n"
ReplyOk == TEST_RTN_SUCCESS \o <<"A", "U", "T", "O">> \o CRLF
\* b"!00 OPMODE=\xff\r\n": the success prefix followed by a corrupted value
ReplyOkBadByte == TEST_RTN_SUCCESS \o <<"xFF">> \o CRLF

ProbeReplies == {ReplyOk, ReplyOkBadByte, LineNoise, LineBadByte}

----------------------------------------------------------------------------
(* The node server (src/autelis-poly.py): its nodes, their drivers and its *)
(* threads. The poll thread runs shortPoll, the hub thread runs the        *)
(* handlers of the hub's commands (QUERY, DON, DOF, SET_SPH, SET_MODE).    *)

ISY_TEMP_F_UOM == 17
ISY_TEMP_C_UOM == 4

UnitF == <<"F">>
UnitC == <<"C">>

NoElements == [n \in {} |-> <<>>]

\* get_status() returned None.
NoXML == [present |-> FALSE, tag |-> "", system |-> NoElements,
          temp |-> NoElements, equipment |-> <<>>]

\* The addresses discover_nodes gives to its TempControl nodes.
TempAddresses == {"poolht", "spaht"}

\* The drivers lists of the three node classes, with their initial values.
ControllerDrivers ==
    [d \in {"ST", "GV0", "GV1", "GV2", "GV3", "GV4", "GV5", "CLITEMP", "GV9"} |->
        IF d = "GV0" THEN 1 ELSE 0]
TempControlDrivers == [d \in {"ST", "CLISPH", "CLIMD", "CLIHCS", "CLISPC"} |-> 0]
EquipmentDrivers == [d \in {"ST"} |-> 0]

UomOf(tempUnit) == IF tempUnit = UnitC THEN ISY_TEMP_C_UOM ELSE ISY_TEMP_F_UOM

Threads == {"poll", "hub"}

\* The nodes discover_nodes creates for a controller with equipment
\* circuit1 and feature1.
EquipAddresses == {"circuit1", "feature1"}

\* The node server after start(): every driver has its declared value, the
\* temperature drivers carry the unit of the first status document.
Constructed(tempAddrs, tempUnit) ==
    [drivers |-> [n \in {"controller"} \cup tempAddrs \cup EquipAddresses |->
                    IF n = "controller" THEN ControllerDrivers
                    ELSE IF n \in tempAddrs THEN TempControlDrivers
                    ELSE EquipmentDrivers],
     uoms |-> [n \in {"controller"} \cup tempAddrs |->
                    IF n = "controller"
                    THEN [d \in {"CLITEMP", "GV9"} |-> UomOf(tempUnit)]
                    ELSE [d \in {"ST", "CLISPH", "CLISPC"} |-> UomOf(tempUnit)]],
     ids |-> [n \in {"controller"} \cup tempAddrs \cup EquipAddresses |->
                    IF n = "controller" THEN "CONTROLLER"
                    ELSE IF n \in tempAddrs
                    THEN (IF tempUnit = UnitC THEN "TEMP_CONTROL_C" ELSE "TEMP_CONTROL")
                    ELSE "EQUIPMENT"],
     unit |-> tempUnit,
     raised |-> FALSE,
     log |-> <<>>]

\* The node server's state as the value the methods work on.
NS == [drivers |-> drivers, uoms |-> uoms, ids |-> ids, unit |-> currentTempUnit,
       raised |-> FALSE, log |-> <<>>]

NoCommand == [name |-> "", address |-> "", value |-> 0, ok |-> FALSE]
NoResponse == [outcome |-> "", wellformed |-> FALSE, tag |-> ""]

\* The node server with the given nodes, its threads in state p.
ServerInit(c, p) ==
    /\ drivers = c.drivers
    /\ uoms = c.uoms
    /\ ids = c.ids
    /\ currentTempUnit = c.unit
    /\ tpc = [t \in Threads |-> p]
    /\ statusXML = [t \in Threads |-> NoXML]
    /\ httpResp = [t \in Threads |-> NoResponse]
    /\ command = NoCommand
    /\ requests = 0
    /\ wlog = <<>>
    /\ ncalls = [t \in Threads |-> 0]

ThermoOff ==
    /\ thermoIn = [address |-> "", setting |-> 0, htstatus |-> 0]
    /\ thpc = "off"

NoFact == [cmd |-> <<>>, val |-> <<>>, name |-> "", text |-> <<>>, doc |-> NoXML]

PushOff ==
    /\ fact = NoFact
    /\ pushed = Constructed(TempAddresses, UnitF)
    /\ ppc = {}

\* The node server is not running.
ServerOff == ServerInit(Constructed(TempAddresses, UnitF), "off") /\ ThermoOff /\ PushOff

----------------------------------------------------------------------------
(* status_listener, called with a handler (statusUpdateCallback is not     *)
(* None). Its steps are the places where it blocks on the socket, and the  *)
(* processing of what it received. The bare "except:" clauses around recv  *)
(* and send (an exception that is no socket error: close and re-raise) are *)
(* taken only at connect.                                                  *)

Min(a, b) == IF a < b THEN a ELSE b

\* What the caller's handler may do with an update: return a true value,
\* return a false value (the update was not applied), or raise.
HandlerAnswers == {"applied", "rejected", "raises"}

Connected == pc \in {"recv", "process", "probe_send", "probe_recv"}

Init ==
    /\ pc = "connect"
    /\ closed = FALSE
    /\ result = "none"
    /\ raisedBy = ""
    /\ timeout = 0
    /\ msg = <<>>
    /\ msgSeq = 0
    /\ calls = <<>>
    /\ lastHandler = "none"
    /\ lastOp = "none"
    /\ probe = "none"
    /\ connects = 0
    /\ connectFailed = FALSE
    /\ didRecv = FALSE
    /\ didSend = FALSE
    /\ nrecv = 0
    /\ wire = <<>>
    /\ sent = <<>>
    /\ peer = "open"
    /\ pushes = 0
    /\ replies = 0
    /\ answered = FALSE
    /\ shutdown = FALSE
    /\ token = <<>>
    /\ xlat = Returns(<<>>)
    /\ xpc = "idle"
    /\ ServerOff

\* conn.close(); return False
ReturnFailure ==
    /\ closed' = TRUE
    /\ result' = "False"
    /\ pc' = "returned"
    /\ UNCHANGED raisedBy

\* An exception leaves status_listener from a place that no try block of
\* the function covers: nothing is closed on the way out.
Propagate(by) ==
    /\ result' = "raised"
    /\ pc' = "raised"
    /\ raisedBy' = by
    /\ UNCHANGED closed

\* The end of the loop body: back to the top of "while True".
Continue ==
    /\ pc' = "recv"
    /\ UNCHANGED <<closed, result, raisedBy>>

\* A connect that logs the socket error and falls into the receive loop.
Connect_FallThrough ==
    /\ pc = "connect"
    /\ connects' = connects + 1
    /\ lastOp' = "connect"
    /\ \E o \in {"ok", "sockerr"} :
         /\ connectFailed' = (o = "sockerr")
         /\ pc' = "recv"
         /\ UNCHANGED <<closed, result, raisedBy>>
    /\ UNCHANGED <<timeout, msg, msgSeq, calls, lastHandler, probe, didRecv,
                   didSend, nrecv>>
    /\ UNCHANGED <<envVars, xlatVars, serverVars>>

\* conn.connect: established, a socket error (socket.error, socket.herror,
\* socket.gaierror), or any other exception.
Connect ==
    /\ pc = "connect"
    /\ connects' = connects + 1
    /\ lastOp' = "connect"
    /\ \E o \in {"ok", "sockerr", "other"} :
         /\ connectFailed' = (o = "sockerr")
         /\ CASE o = "ok" -> Continue
              [] o = "sockerr" -> ReturnFailure
              [] o = "other" ->
                    /\ closed' = TRUE
                    /\ result' = "raised"
                    /\ pc' = "raised"
                    /\ raisedBy' = "connect"
    /\ UNCHANGED <<timeout, msg, msgSeq, calls, lastHandler, probe, didRecv,
                   didSend, nrecv>>
    /\ UNCHANGED <<envVars, xlatVars, serverVars>>

\* conn.recv(_BUFFER_SIZE) with bytes waiting returns a non-empty prefix of
\* them, of at most _BUFFER_SIZE bytes: all of them, or a short read.
ReadSizes ==
    {n \in 1..Min(BUFFER_SIZE, Len(wire)) :
        n = Min(BUFFER_SIZE, Len(wire)) \/ n <= MaxShortRead}

\* The top of the loop: conn.settimeout(600); msg = conn.recv(_BUFFER_SIZE)
SteadyRecv ==
    /\ pc = "recv"
    /\ timeout' = IdleTimeout
    /\ didRecv' = TRUE
    /\ lastOp' = "steady_recv"
    /\ probe' = "none"
    /\ \/ /\ peer = "error"                 \* socket.error
          /\ ReturnFailure
          /\ UNCHANGED <<msg, msgSeq, nrecv, wire>>
       \/ /\ peer # "error"                 \* bytes arrive
          /\ wire # <<>>
          /\ \E n \in ReadSizes :
               /\ msg' = SubSeq(wire, 1, n)
               /\ wire' = Drop(wire, n)
          /\ nrecv' = nrecv + 1
          /\ msgSeq' = nrecv + 1
          /\ pc' = "process"
          /\ UNCHANGED <<closed, result, raisedBy>>
       \/ /\ peer = "closed"                \* end of stream: recv returns b""
          /\ wire = <<>>
          /\ msg' = <<>>
          /\ msgSeq' = 0
          /\ pc' = "process"
          /\ UNCHANGED <<closed, result, raisedBy, nrecv, wire>>
       \/ /\ peer = "open"                  \* socket.timeout: nothing for 600 s
          /\ wire = <<>>
          /\ pc' = "probe_send"
          /\ UNCHANGED <<closed, result, raisedBy, msg, msgSeq, nrecv, wire>>
    /\ UNCHANGED <<calls, lastHandler, connects, connectFailed, didSend>>
    /\ UNCHANGED <<sent, peer, pushes, replies, answered, shutdown, xlatVars, serverVars>>

\* The rest of the loop body: "if len(msg) > 0", the match, the translation
\* and the handler invocation. (matches, element and value are bound as
\* values, once, as the code's local variables are.)
Process ==
    /\ pc = "process"
    /\ lastOp' = "process"
    /\ IF Len(msg) > 0 THEN
          IF ~Decodable(msg) THEN           \* msg.decode("utf-8") raises
              /\ Propagate("decode")
              /\ lastHandler' = "none"
              /\ UNCHANGED calls
          ELSE
              \E matches \in {StatusMatch(msg)} :
              IF matches.ok THEN
                  \E element \in {cmd_to_element(matches.cmd)} :
                  IF element.raised THEN    \* int(cmd[3:]) raises
                      /\ Propagate("translate")
                      /\ lastHandler' = "none"
                      /\ UNCHANGED calls
                  ELSE
                      \E value \in {val_to_text(matches.val)} :
                      \E h \in HandlerAnswers :
                        /\ calls' = Append(calls, [seq |-> msgSeq,
                                                   element |-> element.value,
                                                   value |-> value])
                        /\ lastHandler' = h
                        /\ IF h = "raises" THEN Propagate("handler") ELSE Continue
              ELSE                          \* no match: a warning
                  /\ Continue
                  /\ lastHandler' = "none"
                  /\ UNCHANGED calls
       ELSE
          /\ Continue
          /\ lastHandler' = "none"
          /\ UNCHANGED calls
    /\ UNCHANGED <<timeout, msg, msgSeq, probe, connects, connectFailed,
                   didRecv, didSend, nrecv>>
    /\ UNCHANGED <<envVars, xlatVars, serverVars>>

\* After the idle timeout: conn.settimeout(2); conn.send(_TEST_TCP_MSG)
ProbeSend ==
    /\ pc = "probe_send"
    /\ timeout' = ProbeTimeout
    /\ didSend' = TRUE
    /\ lastOp' = "probe_send"
    /\ answered' = FALSE
    /\ \/ /\ peer \in {"open", "closed"}    \* the bytes are accepted
          /\ pc' = "probe_recv"
          /\ probe' = "pending"
          /\ UNCHANGED <<closed, result, raisedBy>>
       \/ /\ peer \in {"closed", "error"}   \* socket.error (or socket.timeout)
          /\ probe' = "error"
          /\ ReturnFailure
    /\ UNCHANGED <<msg, msgSeq, calls, lastHandler, connects, connectFailed,
                   didRecv, nrecv>>
    /\ UNCHANGED <<wire, sent, peer, pushes, replies, shutdown, xlatVars, serverVars>>

\* A probe whose reply is kept apart from msg.
ProbeAssign_Stale(old, new) == old

\* msg = conn.recv(_BUFFER_SIZE) in the probe: msg now holds the reply.
ProbeAssign(old, new) == new

\* The probe's receive and the check of what came back.
ProbeRecv ==
    /\ pc = "probe_recv"
    /\ didRecv' = TRUE
    /\ lastOp' = "probe_recv"
    /\ \/ /\ peer = "error"                 \* socket.error
          /\ probe' = "error"
          /\ ReturnFailure
          /\ UNCHANGED <<msg, msgSeq, nrecv, wire>>
       \/ /\ peer = "open"                  \* socket.timeout: nothing for 2 s
          /\ wire = <<>>
          /\ probe' = "timeout"
          /\ ReturnFailure
          /\ UNCHANGED <<msg, msgSeq, nrecv, wire>>
       \/ /\ peer = "closed"                \* end of stream: b"" holds no prefix
          /\ wire = <<>>
          /\ msg' = ProbeAssign(msg, <<>>)
          /\ msgSeq' = ProbeAssign(msgSeq, 0)
          /\ probe' = "wrong"
          /\ ReturnFailure
          /\ UNCHANGED <<nrecv, wire>>
       \/ /\ peer # "error"                 \* bytes arrive
          /\ wire # <<>>
          /\ \E n \in ReadSizes :
               LET reply == SubSeq(wire, 1, n) IN
               /\ msg' = ProbeAssign(msg, reply)
               /\ wire' = Drop(wire, n)
               /\ IF Contains(reply, TEST_RTN_SUCCESS) THEN
                      /\ probe' = "ok"
                      /\ pc' = "process"
                      /\ UNCHANGED <<closed, result, raisedBy>>
                  ELSE
                      /\ probe' = "wrong"
                      /\ IF Decodable(reply)
                         THEN ReturnFailure
                         \* logger.error(..., msg.decode("utf-8")) raises
                         ELSE Propagate("log")
          /\ nrecv' = nrecv + 1
          /\ msgSeq' = ProbeAssign(msgSeq, nrecv + 1)
    /\ UNCHANGED <<timeout, calls, lastHandler, connects, connectFailed, didSend>>
    /\ UNCHANGED <<sent, peer, pushes, replies, answered, shutdown, xlatVars, serverVars>>

ListenerStep == Connect \/ SteadyRecv \/ Process \/ ProbeSend \/ ProbeRecv

----------------------------------------------------------------------------
(* The environment of the listener.                                        *)

\* The controller pushes a line.
PeerPush ==
    /\ Connected
    /\ peer = "open"
    /\ pushes < MaxPush
    /\ \E l \in PushLines :
         /\ wire' = wire \o l
         /\ sent' = Append(sent, l)
    /\ pushes' = pushes + 1
    /\ UNCHANGED <<peer, replies, answered, shutdown>>
    /\ UNCHANGED <<listenerVars, xlatVars, serverVars>>

\* The controller answers the probe in flight.
PeerReply ==
    /\ pc = "probe_recv"
    /\ peer = "open"
    /\ ~answered
    /\ replies < MaxReplies
    /\ \E r \in ProbeReplies :
         /\ wire' = wire \o r
         /\ sent' = Append(sent, r)
    /\ replies' = replies + 1
    /\ answered' = TRUE
    /\ UNCHANGED <<peer, pushes, shutdown>>
    /\ UNCHANGED <<listenerVars, xlatVars, serverVars>>

\* The controller closes the connection: what it sent can still be read,
\* then every receive returns a zero-length read.
PeerClose ==
    /\ Connected
    /\ peer = "open"
    /\ peer' = "closed"
    /\ UNCHANGED <<wire, sent, pushes, replies, answered, shutdown>>
    /\ UNCHANGED <<listenerVars, xlatVars, serverVars>>

\* The connection is reset: socket calls raise socket.error from now on.
PeerReset ==
    /\ Connected
    /\ peer \in {"open", "closed"}
    /\ peer' = "error"
    /\ wire' = <<>>
    /\ UNCHANGED <<sent, pushes, replies, answered, shutdown>>
    /\ UNCHANGED <<listenerVars, xlatVars, serverVars>>

\* The caller signals shutdown. status_listener takes a controller address,
\* a callback and a logger: no argument, and no state it reads, carries the
\* signal.
SignalShutdown ==
    /\ ~shutdown
    /\ shutdown' = TRUE
    /\ UNCHANGED <<wire, sent, peer, pushes, replies, answered>>
    /\ UNCHANGED <<listenerVars, xlatVars, serverVars>>

Next ==
    \/ Connect
    \/ SteadyRecv
    \/ Process
    \/ ProbeSend
    \/ ProbeRecv
    \/ PeerPush
    \/ PeerReply
    \/ PeerClose
    \/ PeerReset
    \/ SignalShutdown

Spec == Init /\ [][Next]_vars

\* The listener runs on a thread of its own: a step it can take, it takes.
FairSpec == Init /\ [][Next]_vars /\ WF_vars(ListenerStep)

----------------------------------------------------------------------------
(* The translators applied to every token of a bounded set.                *)

SeqsUpTo(S, n) == UNION {[1..k -> S] : k \in 0..n}

\* Tokens of the fixed table, tokens no branch names, and CIR followed by
\* up to MaxSuffix characters, digits or not.
Tokens ==
    {<<"A", "I", "R", "T", "M", "P">>, <<"S", "P", "A", "T", "M", "P">>,
     <<"S", "O", "L", "H", "T">>, <<"S", "O", "L", "T", "M", "P">>,
     <<"W", "F", "A", "L", "L">>, <<"C", "L", "E", "A", "N">>,
     <<"O", "P", "T", "I", "O", "N", "S">>, <<"U", "N", "I", "T", "S">>,
     <<"P", "O", "O", "L", "T", "M", "P">>, <<"P", "O", "O", "L", "T", "M", "P", "2">>,
     <<"O", "P", "M", "O", "D", "E">>, <<"V", "B", "A", "T">>, <<"C", "I">>,
     <<"P", "O", "O", "L", "S", "P">>, <<"A", "U", "X", "1">>}
    \cup {<<"C", "I", "R">> \o s : s \in SeqsUpTo(Digit \cup {"X"}, MaxSuffix)}

\* Value tokens: the fixed table, numbers of up to MaxDigits digits, and
\* tokens no branch names.
ValTokens ==
    {<<"A", "U", "T", "O">>, <<"S", "E", "R", "V", "I", "C", "E">>,
     <<"T", "I", "M", "E", "O", "U", "T">>, <<"T", "R", "U", "E">>,
     <<"F", "A", "L", "S", "E">>, <<"T">>, <<"F">>, <<"O", "N">>,
     <<"O", "F", "F">>, <<"H", "E", "A", "T", "E", "R">>,
     <<"S", "O", "L", "P", "R", "E", "F">>, <<"S", "O", "L", "A", "R">>,
     <<"C">>, <<"O">>, <<"A", "U", "T", "O", "S">>, <<"H", "E", "A", "T">>}
    \cup (SeqsUpTo(Digit, MaxDigits) \ {<<>>})

\* "!00 OPMODE=<val>\r\n"
ValueLine(val) == TEST_RTN_SUCCESS \o val \o CRLF

\* Either a token for cmd_to_element, or a listener that has just received
\* the line "!00 OPMODE=<token>\r\n" in its first read.
TransInit ==
    /\ ServerOff
    /\ closed = FALSE
    /\ result = "none"
    /\ raisedBy = ""
    /\ calls = <<>>
    /\ lastHandler = "none"
    /\ probe = "none"
    /\ connectFailed = FALSE
    /\ didSend = FALSE
    /\ wire = <<>>
    /\ peer = "open"
    /\ replies = 0
    /\ answered = FALSE
    /\ shutdown = FALSE
    /\ xlat = Returns(<<>>)
    /\ \/ /\ token \in Tokens
          /\ xpc = "ready"
          /\ pc = "off"
          /\ timeout = 0
          /\ msg = <<>>
          /\ msgSeq = 0
          /\ lastOp = "none"
          /\ connects = 0
          /\ didRecv = FALSE
          /\ nrecv = 0
          /\ sent = <<>>
          /\ pushes = 0
       \/ /\ token \in ValTokens
          /\ xpc = "line"
          /\ pc = "process"
          /\ timeout = IdleTimeout
          /\ msg = ValueLine(token)
          /\ msgSeq = 1
          /\ lastOp = "steady_recv"
          /\ connects = 1
          /\ didRecv = TRUE
          /\ nrecv = 1
          /\ sent = <<ValueLine(token)>>
          /\ pushes = 1

TranslateCmd ==
    /\ xpc = "ready"
    /\ xlat' = cmd_to_element(token)
    /\ xpc' = "done"
    /\ UNCHANGED <<token, listenerVars, envVars, serverVars>>

\* cmd_to_element on a token, or the listener's processing of the line.
TransNext == TranslateCmd \/ Process

TransSpec == TransInit /\ [][TransNext]_vars

----------------------------------------------------------------------------
(* The node server (src/autelis-poly.py): the nodes and their drivers.     *)
(* A snapshot (the parsed status.xml) is a record of its three sections;   *)
(* system and temp map an element name to its text, equipment lists its    *)
(* child elements in document order. Element text is a sequence of         *)
(* characters, as the tokens of the translators are.                       *)

\* The node server's state as one value: the drivers' values, the uom of the
\* temperature drivers, the nodes' ids, currentTempUnit, whether the running
\* method has raised, and the writes the running method has made, in order.
\* self.setDriver(driver, value, report) on a node.
setDriver(ns, node, driver, value) ==
    IF ns.raised THEN ns
    ELSE [ns EXCEPT !.drivers[node][driver] = value,
                    !.log = Append(@, [op |-> "value", node |-> node, driver |-> driver])]

\* An exception leaves the running method: nothing after it is executed.
Raise(ns) == [ns EXCEPT !.raised = TRUE]

RECURSIVE SetUoms(_, _, _, _)
SetUoms(ns, node, ds, tempUnit) ==
    IF ds = <<>> THEN ns
    ELSE SetUoms([ns EXCEPT !.uoms[node][Head(ds)] = UomOf(tempUnit),
                            !.log = Append(@, [op |-> "uom", node |-> node, driver |-> Head(ds)])],
                 node, Tail(ds), tempUnit)

\* TempControl.set_temp_unit
TempControl_set_temp_unit(ns, node, tempUnit) ==
    SetUoms([ns EXCEPT !.ids[node] = IF tempUnit = UnitC THEN "TEMP_CONTROL_C" ELSE "TEMP_CONTROL"],
            node, <<"ST", "CLISPH", "CLISPC">>, tempUnit)

\* self.updateNode(node): the node definition is sent to the hub.
updateNode(ns, node) ==
    [ns EXCEPT !.log = Append(@, [op |-> "updateNode", node |-> node, driver |-> ""])]

\* Controller.set_temp_unit
Controller_set_temp_unit(ns, tempUnit) ==
    LET relabelled == updateNode(SetUoms(ns, "controller", <<"CLITEMP", "GV9">>, tempUnit),
                                 "controller")
    IN  [relabelled EXCEPT !.unit = tempUnit,
                           !.log = Append(@, [op |-> "unit", node |-> "controller", driver |-> ""])]

\* The order in which "for addr in self.nodes" meets the TempControl nodes.
NodeOrder == <<"poolht", "spaht", "poolht2", "solarht">>

RECURSIVE RelabelNodes(_, _, _)
RelabelNodes(ns, addrs, newTempUnit) ==
    IF addrs = <<>> THEN ns
    ELSE LET addr == Head(addrs) IN
         IF addr \in DOMAIN ns.ids /\ ns.ids[addr] \in {"TEMP_CONTROL", "TEMP_CONTROL_C"}
         THEN RelabelNodes(updateNode(TempControl_set_temp_unit(ns, addr, newTempUnit), addr),
                           Tail(addrs), newTempUnit)
         ELSE RelabelNodes(ns, Tail(addrs), newTempUnit)

\* Controller.change_temp_units
change_temp_units(ns, newTempUnit) ==
    Controller_set_temp_unit(RelabelNodes(ns, NodeOrder, newTempUnit), newTempUnit)

\* n & bit, for bit a power of two and n >= 0.
BitSet(n, bit) == (n \div bit) % 2 = 1

\* The thermostat mode of update_thermo_drivers with Auto and Aux Heat
\* exchanged.
ThermoMode_Swapped(setting) ==
    IF setting = 1 THEN 1
    ELSE IF setting = 2 THEN 4
    ELSE IF setting = 3 THEN 3
    ELSE 0

\* update_thermo_drivers, first part: the thermostat mode (CLIMD) of a heater
\* setting: 1 Heat, 3 Auto, 4 Aux/Emergency Heat, 0 Off.
ThermoMode(setting) ==
    IF setting = 1 THEN 1
    ELSE IF setting = 2 THEN 3
    ELSE IF setting = 3 THEN 4
    ELSE 0

\* The heat/cool state of update_thermo_drivers with the spa bits tested in
\* the other order.
ThermoHCS_SolarFirst(address, htstatus) ==
    IF address = "spaht" THEN
        IF BitSet(htstatus, 8) THEN 7 ELSE IF BitSet(htstatus, 2) THEN 1 ELSE 0
    ELSE
        IF BitSet(htstatus, 1) THEN 1 ELSE IF BitSet(htstatus, 4) THEN 7 ELSE 0

\* The heat/cool state of update_thermo_drivers with the spa heater reading
\* the pool's bits.
ThermoHCS_PoolBits(address, htstatus) ==
    IF BitSet(htstatus, 1) THEN 1 ELSE IF BitSet(htstatus, 4) THEN 7 ELSE 0

\* update_thermo_drivers, second part: the heat/cool state (CLIHCS) of the
\* heating status bits for the addresses "spaht" and "poolht": 1 Heating,
\* 7 Aux Heat, 0 Idle.
ThermoHCS(address, htstatus) ==
    IF address = "spaht" THEN
        IF BitSet(htstatus, 2) THEN 1 ELSE IF BitSet(htstatus, 8) THEN 7 ELSE 0
    ELSE
        IF BitSet(htstatus, 1) THEN 1 ELSE IF BitSet(htstatus, 4) THEN 7 ELSE 0

\* TempControl.update_thermo_drivers
update_thermo_drivers(ns, address, setting, htstatus) ==
    LET mode == setDriver(ns, address, "CLIMD", ThermoMode(setting)) IN
    IF address \in {"spaht", "poolht"}
    THEN setDriver(mode, address, "CLIHCS", ThermoHCS(address, htstatus))
    ELSE mode

\* int(section.find(name).text): AttributeError when the element is
\* missing, ValueError when its text is no number.
ReadInt(section, name) ==
    IF name \in DOMAIN section THEN ParseInt(section[name])
    ELSE [raised |-> TRUE, value |-> 0]

AnyRaised(reads) == \E i \in DOMAIN reads : reads[i].raised

\* The loop over the children of <equipment>.
RECURSIVE UpdateEquipment(_, _)
UpdateEquipment(ns, elements) ==
    IF elements = <<>> \/ ns.raised THEN ns
    ELSE LET addr == Head(elements).tag
             state == ParseInt(Head(elements).text)
         IN  IF addr \in DOMAIN ns.drivers
             THEN UpdateEquipment(IF state.raised THEN Raise(ns)
                                  ELSE setDriver(ns, addr, "ST", state.value),
                                  Tail(elements))
             ELSE UpdateEquipment(ns, Tail(elements))

\* The update of one TempControl node: its four reads, then its writes.
UpdateTempControl(ns, temp, addr, settingName, setPointName, currentTempName) ==
    IF ns.raised THEN ns
    ELSE LET htstatus == ReadInt(temp, "htstatus")
             setting == ReadInt(temp, settingName)
             setPoint == ReadInt(temp, setPointName)
             currentTemp == ReadInt(temp, currentTempName)
         IN  IF AnyRaised(<<htstatus, setting, setPoint, currentTemp>>) THEN Raise(ns)
             ELSE update_thermo_drivers(
                      setDriver(setDriver(ns, addr, "ST", currentTemp.value),
                                addr, "CLISPH", setPoint.value),
                      addr, setting.value, htstatus.value)

\* The update of the controller node: its eight reads, then its writes.
UpdateController(ns, system, temp) ==
    IF ns.raised THEN ns
    ELSE LET runstate == ReadInt(system, "runstate")
             opmode == ReadInt(system, "opmode")
             freeze == ReadInt(system, "freeze")
             waterSensor == ReadInt(system, "sensor1")
             solarSensor == ReadInt(system, "sensor2")
             airSensor == ReadInt(system, "sensor3")
             airTemp == ReadInt(temp, "airtemp")
             solarTemp == ReadInt(temp, "soltemp")
         IN  IF AnyRaised(<<runstate, opmode, freeze, waterSensor, solarSensor,
                            airSensor, airTemp, solarTemp>>)
             THEN Raise(ns)
             ELSE LET w0 == setDriver(ns, "controller", "GV0", runstate.value)
                      w1 == setDriver(w0, "controller", "GV1", opmode.value)
                      w2 == setDriver(w1, "controller", "GV2", freeze.value)
                      w3 == setDriver(w2, "controller", "GV3", waterSensor.value)
                      w4 == setDriver(w3, "controller", "GV4", solarSensor.value)
                      w5 == setDriver(w4, "controller", "GV5", airSensor.value)
                      w6 == setDriver(w5, "controller", "CLITEMP", airTemp.value)
                  IN  setDriver(w6, "controller", "GV9", solarTemp.value)

\* An update_node_states that writes the snapshot's values and then
\* relabels the units.
update_node_states_ValuesFirst(ns, xml) ==
    IF ~xml.present THEN setDriver(ns, "controller", "GV0", 0)
    ELSE IF "tempunits" \notin DOMAIN xml.temp THEN Raise(ns)
    ELSE
        LET tempUnit == xml.temp["tempunits"]
            controller == UpdateController(ns, xml.system, xml.temp)
            pool == UpdateTempControl(controller, xml.temp, "poolht",
                                      "poolht", "poolsp", "pooltemp")
            spa == UpdateTempControl(pool, xml.temp, "spaht",
                                     "spaht", "spasp", "spatemp")
            equip == UpdateEquipment(spa, xml.equipment)
        IN  IF tempUnit # ns.unit /\ ~equip.raised
            THEN change_temp_units(equip, tempUnit)
            ELSE equip

\* An update_node_states that, given no document, also zeroes the air
\* temperature.
update_node_states_AbsentClears(ns, xml) ==
    IF ~xml.present
    THEN setDriver(setDriver(ns, "controller", "GV0", 0), "controller", "CLITEMP", 0)
    ELSE IF "tempunits" \notin DOMAIN xml.temp THEN Raise(ns)
    ELSE
        LET tempUnit == xml.temp["tempunits"]
            units == IF tempUnit # ns.unit THEN change_temp_units(ns, tempUnit) ELSE ns
            controller == UpdateController(units, xml.system, xml.temp)
            pool == UpdateTempControl(controller, xml.temp, "poolht",
                                      "poolht", "poolsp", "pooltemp")
            spa == UpdateTempControl(pool, xml.temp, "spaht",
                                     "spaht", "spasp", "spatemp")
        IN  UpdateEquipment(spa, xml.equipment)

\* Controller.update_node_states, after get_status() has returned
\* statusXML (here xml).
update_node_states(ns, xml) ==
    IF ~xml.present THEN setDriver(ns, "controller", "GV0", 0)
    ELSE IF "tempunits" \notin DOMAIN xml.temp THEN Raise(ns)
    ELSE
        LET tempUnit == xml.temp["tempunits"]
            units == IF tempUnit # ns.unit THEN change_temp_units(ns, tempUnit) ELSE ns
            controller == UpdateController(units, xml.system, xml.temp)
            pool == UpdateTempControl(controller, xml.temp, "poolht",
                                      "poolht", "poolsp", "pooltemp")
            spa == UpdateTempControl(pool, xml.temp, "spaht",
                                     "spaht", "spasp", "spatemp")
        IN  UpdateEquipment(spa, xml.equipment)

----------------------------------------------------------------------------
(* The HTTP client (src/autelisapi.py: get_status, send_command) and the   *)
(* controller's answers.                                                   *)

Returned(v) == [raised |-> FALSE, value |-> v]

\* The exceptions of requests.get and raise_for_status that the client
\* catches.
TransientErrors == {"Timeout", "ConnectionError", "HTTPError"}

\* A get_status that returns whatever document it parsed.
get_status_AnyRoot(response) ==
    IF response.outcome \in TransientErrors THEN Returned(NoXML)
    ELSE IF response.outcome # "ok" THEN [raised |-> TRUE, value |-> NoXML]
    ELSE IF ~response.wellformed THEN [raised |-> TRUE, value |-> NoXML]
    ELSE Returned(response.doc)

\* AutelisInterface.get_status: None for the caught exceptions; any other
\* exception is raised again; xml.fromstring raises on a body that is no
\* XML; a document whose root is not "response" gives None.
get_status(response) ==
    IF response.outcome \in TransientErrors THEN Returned(NoXML)
    ELSE IF response.outcome # "ok" THEN [raised |-> TRUE, value |-> NoXML]
    ELSE IF ~response.wellformed THEN [raised |-> TRUE, value |-> NoXML]
    ELSE IF response.doc.tag = "response" THEN Returned(response.doc)
    ELSE Returned(NoXML)

\* AutelisInterface.send_command: False for the caught exceptions, True when
\* the GET succeeded; any other exception is raised again.
send_command(outcome) ==
    IF outcome \in TransientErrors THEN Returned(FALSE)
    ELSE IF outcome # "ok" THEN [raised |-> TRUE, value |-> FALSE]
    ELSE Returned(TRUE)

\* Two status documents of the controller.
SnapshotF ==
    [present |-> TRUE, tag |-> "response",
     system |-> [runstate |-> <<"8">>, opmode |-> <<"0">>, freeze |-> <<"0">>,
                 sensor1 |-> <<"0">>, sensor2 |-> <<"0">>, sensor3 |-> <<"0">>],
     temp |-> [tempunits |-> UnitF, airtemp |-> <<"7", "8">>, soltemp |-> <<"9", "0">>,
               htstatus |-> <<"1">>, poolht |-> <<"1">>, poolsp |-> <<"8", "2">>,
               pooltemp |-> <<"8", "0">>, spaht |-> <<"2">>, spasp |-> <<"9", "9">>,
               spatemp |-> <<"9", "7">>],
     equipment |-> <<[tag |-> "circuit1", text |-> <<"1">>],
                     [tag |-> "circuit2", text |-> <<"0">>],
                     [tag |-> "feature1", text |-> <<"0">>]>>]

SnapshotC ==
    [present |-> TRUE, tag |-> "response",
     system |-> [runstate |-> <<"8">>, opmode |-> <<"1">>, freeze |-> <<"1">>,
                 sensor1 |-> <<"1">>, sensor2 |-> <<"1">>, sensor3 |-> <<"1">>],
     temp |-> [tempunits |-> UnitC, airtemp |-> <<"2", "5">>, soltemp |-> <<"3", "0">>,
               htstatus |-> <<"1", "0">>, poolht |-> <<"3">>, poolsp |-> <<"2", "8">>,
               pooltemp |-> <<"2", "7">>, spaht |-> <<"2">>, spasp |-> <<"3", "7">>,
               spatemp |-> <<"3", "6">>],
     equipment |-> <<[tag |-> "circuit1", text |-> <<"0">>],
                     [tag |-> "circuit2", text |-> <<"0">>],
                     [tag |-> "feature1", text |-> <<"1">>]>>]

\* The elements update_node_states reads from <system> and from <temp>.
SystemElements == {"runstate", "opmode", "freeze", "sensor1", "sensor2", "sensor3"}
TempElements == {"tempunits", "airtemp", "soltemp", "htstatus", "poolht", "poolsp",
                 "pooltemp", "spaht", "spasp", "spatemp"}

\* The document without one of its elements.
Without(doc, name) ==
    [doc EXCEPT !.system = [n \in DOMAIN doc.system \ {name} |-> doc.system[n]],
                !.temp = [n \in DOMAIN doc.temp \ {name} |-> doc.temp[n]]]

Complete(doc) ==
    doc.present /\ SystemElements \subseteq DOMAIN doc.system
                /\ TempElements \subseteq DOMAIN doc.temp

Snapshots ==
    {SnapshotF, SnapshotC}
    \cup {Without(SnapshotC, n) : n \in SystemElements \cup TempElements}

\* What an HTTP GET of status.xml may come to: an exception, a body that is
\* no XML, a document with another root, a status document.
StatusResponses ==
    {[outcome |-> o, wellformed |-> FALSE, doc |-> NoXML] :
        o \in TransientErrors \cup {"other", "ok"}}
    \cup {[outcome |-> "ok", wellformed |-> TRUE, doc |-> d] :
            d \in Snapshots \cup {[SnapshotF EXCEPT !.tag = "html"]}}

\* What an HTTP GET of set.cgi may come to.
CommandOutcomes == TransientErrors \cup {"other", "ok"}

----------------------------------------------------------------------------
(* The node server's threads: the poll thread runs shortPoll, the hub      *)
(* thread runs the handlers of the hub's commands (QUERY, DON, DOF,        *)
(* SET_SPH, SET_MODE). A handler blocks in its HTTP request; no statement  *)
(* of the source takes a lock.                                             *)

\* update_node_states, first statement: statusXML = self.autelis.get_status()
\* (from shortPoll on the poll thread, from a query on the hub thread).
StartUpdate(t) ==
    /\ tpc[t] = "idle"
    /\ ncalls[t] < MaxCalls
    /\ ncalls' = [ncalls EXCEPT ![t] = @ + 1]
    /\ \E response \in StatusResponses :
         \E got \in {get_status(response)} :
           /\ httpResp' = [httpResp EXCEPT ![t] =
                              [outcome |-> response.outcome,
                               wellformed |-> response.wellformed,
                               tag |-> response.doc.tag]]
           /\ statusXML' = [statusXML EXCEPT ![t] = got.value]
           /\ tpc' = [tpc EXCEPT ![t] = IF got.raised THEN "raised" ELSE "fetched"]
    /\ UNCHANGED <<drivers, uoms, ids, currentTempUnit, command, requests, wlog>>
    /\ UNCHANGED <<listenerVars, envVars, xlatVars, thermoVars, pushVars>>

\* The rest of update_node_states.
ApplyUpdate(t) ==
    /\ tpc[t] = "fetched"
    /\ statusXML' = [statusXML EXCEPT ![t] = NoXML]
    /\ httpResp' = [httpResp EXCEPT ![t] = NoResponse]
    /\ \E after \in {update_node_states(NS, statusXML[t])} :
         /\ drivers' = after.drivers
         /\ uoms' = after.uoms
         /\ ids' = after.ids
         /\ currentTempUnit' = after.unit
         /\ wlog' = after.log
         /\ tpc' = [tpc EXCEPT ![t] = IF after.raised THEN "raised" ELSE "idle"]
    /\ UNCHANGED <<command, requests, ncalls>>
    /\ UNCHANGED <<listenerVars, envVars, xlatVars, thermoVars, pushVars>>

\* The setpoint element of cmd_set_temp ("" when the address has none).
SetpointName(address) ==
    IF address = "poolht" THEN "poolsp"
    ELSE IF address = "poolht2" THEN "poolsp2"
    ELSE IF address = "spaht" THEN "spasp"
    ELSE ""

\* The heater setting cmd_set_mode sends for a thermostat mode.
HeaterSetting(value) ==
    IF value = 1 THEN 1
    ELSE IF value = 3 THEN 2
    ELSE IF value = 4 THEN 3
    ELSE 0

\* The commands the hub may send to the nodes that exist.
SetpointValues == {85}
Commands ==
    {[name |-> n, address |-> a, value |-> 0, ok |-> FALSE] :
        n \in {"DON", "DOF"}, a \in {x \in DOMAIN ids : ids[x] = "EQUIPMENT"}}
    \cup {[name |-> "SET_SPH", address |-> a, value |-> v, ok |-> FALSE] :
        a \in {x \in DOMAIN ids : ids[x] \in {"TEMP_CONTROL", "TEMP_CONTROL_C"}},
        v \in SetpointValues}
    \cup {[name |-> "SET_MODE", address |-> a, value |-> v, ok |-> FALSE] :
        a \in {x \in DOMAIN ids : ids[x] \in {"TEMP_CONTROL", "TEMP_CONTROL_C"}},
        v \in 0..MaxMode}

\* A command handler up to the return of its HTTP request; cmd_set_temp on
\* an address without a setpoint returns before any request.
StartCommand ==
    /\ tpc["hub"] = "idle"
    /\ ncalls["hub"] < MaxCalls
    /\ ncalls' = [ncalls EXCEPT !["hub"] = @ + 1]
    /\ \E c \in Commands :
         IF c.name = "SET_SPH" /\ SetpointName(c.address) = "" THEN
             /\ command' = c
             /\ UNCHANGED <<tpc, requests>>
         ELSE
             \E outcome \in CommandOutcomes :
             \E sent_ok \in {send_command(outcome)} :
               /\ command' = [c EXCEPT !.ok = sent_ok.value]
               /\ requests' = requests + 1
               /\ tpc' = [tpc EXCEPT !["hub"] = IF sent_ok.raised THEN "raised" ELSE "sent"]
    /\ UNCHANGED <<drivers, uoms, ids, currentTempUnit, statusXML, httpResp, wlog>>
    /\ UNCHANGED <<listenerVars, envVars, xlatVars, thermoVars, pushVars>>

\* A cmd_don that sets the driver whatever the request returned.
cmd_don_Always(ns, address, ok) == setDriver(ns, address, "ST", 1)

\* Equipment.cmd_don and cmd_dof, after the request returned ok.
cmd_don(ns, address, ok) == IF ok THEN setDriver(ns, address, "ST", 1) ELSE ns
cmd_dof(ns, address, ok) == IF ok THEN setDriver(ns, address, "ST", 0) ELSE ns

\* TempControl.cmd_set_temp and cmd_set_mode, after the request returned ok.
cmd_set_temp(ns, address, value, ok) ==
    IF ok THEN setDriver(ns, address, "CLISPH", value) ELSE ns
cmd_set_mode(ns, address, value, ok) ==
    IF ok THEN setDriver(ns, address, "CLIMD", value) ELSE ns

\* The rest of a command handler: setDriver, or a warning.
FinishCommand ==
    /\ tpc["hub"] = "sent"
    /\ command' = NoCommand
    /\ tpc' = [tpc EXCEPT !["hub"] = "idle"]
    /\ \E after \in {CASE command.name = "DON" -> cmd_don(NS, command.address, command.ok)
                       [] command.name = "DOF" -> cmd_dof(NS, command.address, command.ok)
                       [] command.name = "SET_SPH" ->
                            cmd_set_temp(NS, command.address, command.value, command.ok)
                       [] OTHER ->
                            cmd_set_mode(NS, command.address, command.value, command.ok)} :
         drivers' = after.drivers
    /\ UNCHANGED <<uoms, ids, currentTempUnit, statusXML, httpResp, requests,
                   wlog, ncalls>>
    /\ UNCHANGED <<listenerVars, envVars, xlatVars, thermoVars, pushVars>>

Poll == StartUpdate("poll") \/ ApplyUpdate("poll")
Query == StartUpdate("hub") \/ ApplyUpdate("hub")

\* The listener is not running, no token is being translated.
ListenerOff ==
    /\ pc = "off"
    /\ closed = FALSE
    /\ result = "none"
    /\ raisedBy = ""
    /\ timeout = 0
    /\ msg = <<>>
    /\ msgSeq = 0
    /\ calls = <<>>
    /\ lastHandler = "none"
    /\ lastOp = "none"
    /\ probe = "none"
    /\ connects = 0
    /\ connectFailed = FALSE
    /\ didRecv = FALSE
    /\ didSend = FALSE
    /\ nrecv = 0
    /\ wire = <<>>
    /\ sent = <<>>
    /\ peer = "open"
    /\ pushes = 0
    /\ replies = 0
    /\ answered = FALSE
    /\ shutdown = FALSE
    /\ token = <<>>
    /\ xlat = Returns(<<>>)
    /\ xpc = "idle"

\* After start(): the nodes of discover_nodes, in the unit of the first
\* status document.
NodeInit ==
    /\ ListenerOff
    /\ ThermoOff
    /\ PushOff
    /\ \E tempUnit \in {UnitF, UnitC} :
         ServerInit(Constructed(TempAddresses, tempUnit), "idle")

NodeNext == Poll \/ Query \/ StartCommand \/ FinishCommand

NodeSpec == NodeInit /\ [][NodeNext]_vars

\* The command handlers on TempControl nodes of every kind of address: those
\* of discover_nodes, "poolht2", and an address without a setpoint.
HandlerInit ==
    /\ ListenerOff
    /\ ThermoOff
    /\ PushOff
    /\ \E tempUnit \in {UnitF, UnitC} :
         ServerInit(Constructed(TempAddresses \cup {"poolht2", "solarht"}, tempUnit), "idle")

HandlerNext == StartCommand \/ FinishCommand

HandlerSpec == HandlerInit /\ [][HandlerNext]_vars

\* update_thermo_drivers on the node of one address, for one heater setting
\* and one heating status.
ThermoInit ==
    /\ ListenerOff
    /\ PushOff
    /\ ServerInit(Constructed(TempAddresses, UnitF), "off")
    /\ thermoIn \in [address : TempAddresses, setting : 0..MaxSetting,
                     htstatus : 0..MaxHtstatus]
    /\ thpc = "ready"

UpdateThermo ==
    /\ thpc = "ready"
    /\ thpc' = "done"
    /\ \E after \in {update_thermo_drivers(NS, thermoIn.address, thermoIn.setting,
                                           thermoIn.htstatus)} :
         drivers' = after.drivers
    /\ UNCHANGED <<uoms, ids, currentTempUnit, tpc, statusXML, httpResp, command,
                   requests, wlog, ncalls, thermoIn>>
    /\ UNCHANGED <<listenerVars, envVars, xlatVars, pushVars>>

ThermoNext == UpdateThermo

ThermoSpec == ThermoInit /\ [][ThermoNext]_vars

----------------------------------------------------------------------------
(* One fact about the pool on its two paths into the node server: as a     *)
(* push line through cmd_to_element and val_to_text, and as an element of  *)
(* the status document through update_node_states.                        *)

\* The element names of the status document, as the translators spell them.
ElementNames ==
    {<<<<"r", "u", "n", "s", "t", "a", "t", "e">>, "runstate">>,
     <<<<"o", "p", "m", "o", "d", "e">>, "opmode">>,
     <<<<"f", "r", "e", "e", "z", "e">>, "freeze">>,
     <<<<"s", "e", "n", "s", "o", "r", "1">>, "sensor1">>,
     <<<<"s", "e", "n", "s", "o", "r", "2">>, "sensor2">>,
     <<<<"s", "e", "n", "s", "o", "r", "3">>, "sensor3">>,
     <<<<"t", "e", "m", "p", "u", "n", "i", "t", "s">>, "tempunits">>,
     <<<<"a", "i", "r", "t", "e", "m", "p">>, "airtemp">>,
     <<<<"s", "o", "l", "t", "e", "m", "p">>, "soltemp">>,
     <<<<"h", "t", "s", "t", "a", "t", "u", "s">>, "htstatus">>,
     <<<<"p", "o", "o", "l", "h", "t">>, "poolht">>,
     <<<<"p", "o", "o", "l", "s", "p">>, "poolsp">>,
     <<<<"p", "o", "o", "l", "t", "e", "m", "p">>, "pooltemp">>,
     <<<<"s", "p", "a", "h", "t">>, "spaht">>,
     <<<<"s", "p", "a", "s", "p">>, "spasp">>,
     <<<<"s", "p", "a", "t", "e", "m", "p">>, "spatemp">>,
     <<<<"c", "i", "r", "c", "u", "i", "t", "1">>, "circuit1">>,
     <<<<"c", "i", "r", "c", "u", "i", "t", "2">>, "circuit2">>,
     <<<<"f", "e", "a", "t", "u", "r", "e", "1">>, "feature1">>}

\* The element an event names ("" when the status document has none of
\* that name).
ElementKey(element) ==
    IF \E e \in ElementNames : e[1] = element
    THEN (CHOOSE e \in ElementNames : e[1] = element)[2]
    ELSE ""

\* The status document with the text of one element replaced.
SetElement(doc, name, text) ==
    [doc EXCEPT
        !.system = [n \in DOMAIN doc.system |-> IF n = name THEN text ELSE doc.system[n]],
        !.temp = [n \in DOMAIN doc.temp |-> IF n = name THEN text ELSE doc.temp[n]],
        !.equipment = [i \in DOMAIN doc.equipment |->
                          IF doc.equipment[i].tag = name
                          THEN [tag |-> name, text |-> text]
                          ELSE doc.equipment[i]]]

\* The handler given to status_listener: an event that names an element of
\* the status document goes through the same mapping as the document with
\* that element's text replaced; any other event is not applied.
ApplyEvent(ns, doc, element, value) ==
    IF ElementKey(element) = "" THEN ns
    ELSE update_node_states(ns, SetElement(doc, ElementKey(element), value))

NumberTexts == SeqsUpTo(Digit, MaxDigits) \ {<<>>}

\* Facts: the push tokens of a fact, and the element and text that carry
\* the same fact in status.xml.
Facts ==
    {[cmd |-> c[1], val |-> n, name |-> c[2], text |-> n] :
        c \in {<<<<"A", "I", "R", "T", "M", "P">>, "airtemp">>,
               <<<<"S", "O", "L", "T", "M", "P">>, "soltemp">>,
               <<<<"P", "O", "O", "L", "T", "M", "P">>, "pooltemp">>,
               <<<<"S", "P", "A", "T", "M", "P">>, "spatemp">>},
        n \in NumberTexts}
    \cup {[cmd |-> <<"U", "N", "I", "T", "S">>, val |-> u, name |-> "tempunits", text |-> u] :
            u \in {UnitF, UnitC}}
    \cup {[cmd |-> <<"O", "P", "M", "O", "D", "E">>, val |-> m[1], name |-> "opmode", text |-> m[2]] :
            m \in {<<<<"A", "U", "T", "O">>, <<"0">>>>,
                   <<<<"S", "E", "R", "V", "I", "C", "E">>, <<"1">>>>,
                   <<<<"T", "I", "M", "E", "O", "U", "T">>, <<"2">>>>}}
    \cup {[cmd |-> c[1], val |-> h[1], name |-> c[2], text |-> h[2]] :
            c \in {<<<<"P", "O", "O", "L", "H", "T">>, "poolht">>,
                   <<<<"S", "P", "A", "H", "T">>, "spaht">>},
            h \in {<<<<"O", "F", "F">>, <<"0">>>>,
                   <<<<"H", "E", "A", "T", "E", "R">>, <<"1">>>>,
                   <<<<"S", "O", "L", "P", "R", "E", "F">>, <<"2">>>>,
                   <<<<"S", "O", "L", "A", "R">>, <<"3">>>>}}
    \cup {[cmd |-> c[1], val |-> b, name |-> c[2], text |-> b] :
            c \in {<<<<"C", "I", "R", "1">>, "circuit1">>,
                   <<<<"C", "I", "R", "4", "1">>, "feature1">>},
            b \in {<<"0">>, <<"1">>}}

\* The node server after its first poll has applied a status document.
Polled(doc) == update_node_states(Constructed(TempAddresses, doc.temp["tempunits"]), doc)

\* A fact that follows a status document the node server has applied on
\* both paths.
PushInit ==
    /\ ListenerOff
    /\ ThermoOff
    /\ ppc = {}
    /\ \E f \in Facts, doc \in {SnapshotF, SnapshotC} :
         /\ fact = [cmd |-> f.cmd, val |-> f.val, name |-> f.name, text |-> f.text,
                    doc |-> doc]
         /\ ServerInit(Polled(doc), "off")
         /\ pushed = [Polled(doc) EXCEPT !.log = <<>>]

\* The push line "!00 <cmd>=<val>" reaches the handler as an event.
PushPath ==
    /\ "push" \notin ppc
    /\ ppc' = ppc \cup {"push"}
    /\ \E element \in {cmd_to_element(fact.cmd)} :
       \E value \in {val_to_text(fact.val)} :
         pushed' = IF element.raised THEN Raise(pushed)
                   ELSE ApplyEvent(pushed, fact.doc, element.value, value)
    /\ UNCHANGED <<fact, nodeVars, thermoVars>>
    /\ UNCHANGED <<listenerVars, envVars, xlatVars>>

\* The next poll gets the status document that carries the fact.
SnapshotPath ==
    /\ "snapshot" \notin ppc
    /\ ppc' = ppc \cup {"snapshot"}
    /\ \E after \in {update_node_states(NS, SetElement(fact.doc, fact.name, fact.text))} :
         /\ drivers' = after.drivers
         /\ uoms' = after.uoms
         /\ ids' = after.ids
         /\ currentTempUnit' = after.unit
         /\ wlog' = after.log
    /\ UNCHANGED <<tpc, statusXML, httpResp, command, requests, ncalls>>
    /\ UNCHANGED <<fact, pushed, thermoVars>>
    /\ UNCHANGED <<listenerVars, envVars, xlatVars>>

PushNext == PushPath \/ SnapshotPath

PushSpec == PushInit /\ [][PushNext]_vars

----------------------------------------------------------------------------
(* The claims about status_listener.                                       *)

\* C1: after an idle timeout, a probe reply that contains "!00 OPMODE="
\* neither closes the connection nor returns a failure: the listener goes on
\* to the steady loop (unless the caller's handler raises), and every steady
\* receive waits with the 600-second idle window.
C1_ProbeSuccessResumes ==
    /\ probe = "ok" =>
          /\ ~closed
          /\ result # "False"
          /\ pc \in {"process", "recv"} \/ (pc = "raised" /\ raisedBy = "handler")
    /\ lastOp = "steady_recv" => timeout = IdleTimeout

\* C2: after an idle timeout, every probe failure (no reply, a reply without
\* "!00 OPMODE=", a socket error) ends the listener with the connection
\* closed and the failure signal returned.
C2_ProbeFailureFails ==
    probe \in {"timeout", "wrong", "error"} =>
        /\ pc = "returned"
        /\ closed
        /\ result = "False"

\* A zero-length read in the steady loop: the peer has closed the connection.
ZeroLengthRead == pc = "process" /\ lastOp = "steady_recv" /\ msg = <<>>

\* C3: when the steady loop's receive reports that the peer has closed the
\* connection, the listener eventually closes the connection and returns the
\* failure signal.
C3_PeerCloseFails == ZeroLengthRead ~> (pc = "returned" /\ closed)

\* The (element, value) of every handler invocation, in order.
Delivered == [i \in DOMAIN calls |-> [element |-> calls[i].element, value |-> calls[i].value]]

\* A complete line that is a status update with a translation.
IsUpdate(line) ==
    /\ Decodable(line)
    /\ StatusMatch(line).ok
    /\ StatusMatch(line).end = Len(line)
    /\ ~cmd_to_element(StatusMatch(line).cmd).raised

\* The updates a sequence of complete lines carries, in wire order.
RECURSIVE Updates(_)
Updates(lines) ==
    IF lines = <<>> THEN <<>>
    ELSE LET m == StatusMatch(Head(lines)) IN
         (IF IsUpdate(Head(lines))
          THEN <<[element |-> cmd_to_element(m.cmd).value, value |-> val_to_text(m.val)]>>
          ELSE <<>>) \o Updates(Tail(lines))

\* C4: once every line the peer sent has been received and processed, the
\* handler has been invoked exactly once for each status-update line,
\* however the stream was cut into reads.
C4_EveryLineDelivered ==
    (pc = "recv" /\ wire = <<>> /\ peer # "error") => Delivered = Updates(sent)

\* C5: handler invocations follow the order of the reads they come from, and
\* no read is delivered twice.
C5_WireOrder ==
    /\ \A i \in DOMAIN calls : calls[i].seq >= 1 /\ calls[i].seq <= nrecv
    /\ \A i, j \in DOMAIN calls : i < j => calls[i].seq < calls[j].seq

\* C5 witness: two updates have been delivered from two reads.
C5_Witness == Len(calls) >= 2 /\ calls[1].seq < calls[2].seq

\* C6: once the caller has signalled shutdown, the handler is not invoked
\* again.
C6_NoCallAfterShutdown == [][shutdown => calls' = calls]_vars

\* C7: a failed connect closes the socket and returns the failure signal
\* without raising; there is one connect attempt, and no receive, no send, no
\* timeout setting and no handler invocation.
C7_ConnectFailure ==
    /\ connects <= 1
    /\ connectFailed =>
          /\ pc = "returned"
          /\ closed
          /\ result = "False"
          /\ raisedBy = ""
          /\ connects = 1
          /\ ~didRecv
          /\ ~didSend
          /\ timeout = 0
          /\ calls = <<>>

\* C7 witness: the connect has failed.
C7_Witness == connectFailed /\ pc = "returned"

\* The payload is no status update: it is not text, or the pattern does not
\* match it.
NoMatch(b) == ~Decodable(b) \/ ~StatusMatch(b).ok

\* C8: in the steady loop, after the processing of a payload that does not
\* match the pattern, or of an update the handler did not apply, the
\* connection is open, nothing has been returned, and the listener is back at
\* its receive.
C8_NoiseTolerated ==
    (/\ lastOp = "process"
     /\ Len(msg) > 0
     /\ NoMatch(msg) \/ lastHandler = "rejected")
    => (pc = "recv" /\ ~closed /\ result = "none")

----------------------------------------------------------------------------
(* The claims about cmd_to_element.                                        *)

\* C9: cmd_to_element returns an element name for every token, and never
\* raises.
C9_Total == xpc = "done" => ~xlat.raised

\* The fixed table of named tokens.
NamedTokens ==
    {<<<<"A", "I", "R", "T", "M", "P">>, <<"a", "i", "r", "t", "e", "m", "p">>>>,
     <<<<"S", "P", "A", "T", "M", "P">>, <<"s", "p", "a", "t", "e", "m", "p">>>>,
     <<<<"S", "O", "L", "H", "T">>, <<"s", "o", "l", "a", "r", "h", "t">>>>,
     <<<<"S", "O", "L", "T", "M", "P">>, <<"s", "o", "l", "a", "r", "t", "e", "m", "p">>>>,
     <<<<"W", "F", "A", "L", "L">>, <<"w", "a", "t", "e", "r", "f", "a", "l", "l">>>>,
     <<<<"C", "L", "E", "A", "N">>, <<"c", "l", "e", "a", "n", "e", "r">>>>,
     <<<<"O", "P", "T", "I", "O", "N", "S">>, <<"d", "i", "p">>>>,
     <<<<"U", "N", "I", "T", "S">>, <<"t", "e", "m", "p", "u", "n", "i", "t", "s">>>>,
     <<<<"P", "O", "O", "L", "T", "M", "P">>, <<"p", "o", "o", "l", "t", "e", "m", "p">>>>,
     <<<<"P", "O", "O", "L", "T", "M", "P", "2">>, <<"p", "o", "o", "l", "t", "e", "m", "p">>>>}

IsNumber(s) == s # <<>> /\ \A i \in DOMAIN s : s[i] \in Digit

\* The documented mapping: CIR<n> by the number n, the fixed table, and the
\* lower-cased copy for any other token.
Documented(tok) ==
    IF Take(tok, 3) = <<"C", "I", "R">> /\ IsNumber(Drop(tok, 3)) THEN
        LET n == DecimalValue(Drop(tok, 3)) IN
        IF n \in 41..50
        THEN <<"f", "e", "a", "t", "u", "r", "e">> \o IntToStr(n - 40)
        ELSE <<"c", "i", "r", "c", "u", "i", "t">> \o Drop(tok, 3)
    ELSE IF \E e \in NamedTokens : e[1] = tok
    THEN (CHOOSE e \in NamedTokens : e[1] = tok)[2]
    ELSE Lower(tok)

\* C10: cmd_to_element returns the documented element for every token.
C10_DocumentedMapping == xpc = "done" => xlat = Returns(Documented(token))

----------------------------------------------------------------------------
(* The claims about val_to_text.                                           *)

\* The fixed table of value tokens.
ValueTable ==
    {<<<<"A", "U", "T", "O">>, <<"0">>>>, <<<<"F", "A", "L", "S", "E">>, <<"0">>>>,
     <<<<"F">>, <<"0">>>>, <<<<"O", "F", "F">>, <<"0">>>>,
     <<<<"S", "E", "R", "V", "I", "C", "E">>, <<"1">>>>, <<<<"T", "R", "U", "E">>, <<"1">>>>,
     <<<<"T">>, <<"1">>>>, <<<<"O", "N">>, <<"1">>>>,
     <<<<"H", "E", "A", "T", "E", "R">>, <<"1">>>>,
     <<<<"T", "I", "M", "E", "O", "U", "T">>, <<"2">>>>,
     <<<<"S", "O", "L", "P", "R", "E", "F">>, <<"2">>>>,
     <<<<"S", "O", "L", "A", "R">>, <<"3">>>>}

\* The documented text of a value token: the table, or the token itself.
DocumentedText(tok) ==
    IF \E e \in ValueTable : e[1] = tok
    THEN (CHOOSE e \in ValueTable : e[1] = tok)[2]
    ELSE tok

\* C11: the value the listener hands to the handler for the line
\* "!00 OPMODE=<token>" is the documented text of the token: "0", "1", "2" or
\* "3" for the tokens of the fixed table, the token itself for any other.
C11_ValueTable ==
    (xpc = "line" /\ lastOp = "process") =>
        /\ Len(calls) = 1
        /\ calls[1].value = DocumentedText(token)

\* C11 witness: the handler has been handed "3" for SOLAR.
C11_Witness ==
    /\ xpc = "line" /\ lastOp = "process"
    /\ token = <<"S", "O", "L", "A", "R">>
    /\ Len(calls) = 1 /\ calls[1].value = <<"3">>

----------------------------------------------------------------------------
(* The claims about the node server.                                       *)

\* C12: a fact that arrives as a push line and is translated by
\* cmd_to_element and val_to_text leaves the node server in the same state
\* as the status document that carries the fact under its element name.
C12_PathsEquivalent ==
    ppc = {"push", "snapshot"} =>
        /\ ~pushed.raised
        /\ pushed.drivers = drivers
        /\ pushed.uoms = uoms
        /\ pushed.ids = ids
        /\ pushed.unit = currentTempUnit

\* C13: get_status returns None, and does not raise, on an HTTP timeout, a
\* connection failure and an HTTP error status; it returns None for a
\* document whose root is not "response"; every document it returns has the
\* root "response".
C13_GetStatus ==
    \A t \in Threads :
        /\ httpResp[t].outcome \in TransientErrors =>
              (tpc[t] = "fetched" /\ ~statusXML[t].present)
        /\ (httpResp[t].outcome = "ok" /\ httpResp[t].wellformed
               /\ httpResp[t].tag # "response") =>
              (tpc[t] = "fetched" /\ ~statusXML[t].present)
        /\ statusXML[t].present => statusXML[t].tag = "response"

\* C13 witness: the poll's GET timed out and get_status returned None.
C13_Witness ==
    /\ httpResp["poll"].outcome = "Timeout"
    /\ tpc["poll"] = "fetched"
    /\ ~statusXML["poll"].present

\* C14: update_node_states on a status document that lacks an element it
\* reads does not raise and changes no driver.
C14_MalformedFailsClosed ==
    [][\A t \in Threads :
          (/\ tpc[t] = "fetched" /\ tpc'[t] # "fetched"
           /\ statusXML[t].present /\ ~Complete(statusXML[t]))
          => (tpc'[t] = "idle" /\ drivers' = drivers)]_vars

\* The thermostat modes: Off, Heat, Auto, Aux/Emergency Heat.
ModeOff == 0
ModeHeat == 1
ModeAuto == 3
ModeAuxHeat == 4
\* The heat/cool states: Idle, Heating, Aux Heat.
HcsIdle == 0
HcsHeating == 1
HcsAuxHeat == 7

\* The documented mode of the heater settings 0..3.
DocumentedMode == <<ModeOff, ModeHeat, ModeAuto, ModeAuxHeat>>

\* C15: update_thermo_drivers sets a thermostat mode for every heater
\* setting; for the settings 0..3 it is Off, Heat, Auto, AuxHeat, and no other
\* setting of 0..3 has the mode it set.
C15_ModeDerivation ==
    thpc = "done" =>
        LET mode == drivers[thermoIn.address]["CLIMD"] IN
        /\ mode \in {ModeOff, ModeHeat, ModeAuto, ModeAuxHeat}
        /\ thermoIn.setting \in 0..3 =>
              /\ mode = DocumentedMode[thermoIn.setting + 1]
              /\ \A other \in 0..3 :
                    DocumentedMode[other + 1] = mode => other = thermoIn.setting

\* C15 witness: heater setting 2 has given Auto.
C15_Witness ==
    /\ thpc = "done" /\ thermoIn.setting = 2
    /\ drivers[thermoIn.address]["CLIMD"] = ModeAuto

\* Bit b (a power of two) of the heating status.
HasBit(htstatus, b) == htstatus % (2 * b) >= b

\* The documented heat/cool state of the two heaters.
DocumentedHCS(address, htstatus) ==
    IF address = "spaht"
    THEN (IF HasBit(htstatus, 2) THEN HcsHeating
          ELSE IF HasBit(htstatus, 8) THEN HcsAuxHeat ELSE HcsIdle)
    ELSE (IF HasBit(htstatus, 1) THEN HcsHeating
          ELSE IF HasBit(htstatus, 4) THEN HcsAuxHeat ELSE HcsIdle)

\* C16: update_thermo_drivers sets the heat/cool state from the heating
\* status: for the spa heater Heating on bit 0x02, else AuxHeat on bit 0x08,
\* else Idle; for the pool heater Heating on bit 0x01, else AuxHeat on bit
\* 0x04, else Idle; a heating status of 0 gives Idle whatever the setting.
C16_HeatCoolStatus ==
    thpc = "done" =>
        LET hcs == drivers[thermoIn.address]["CLIHCS"] IN
        /\ hcs = DocumentedHCS(thermoIn.address, thermoIn.htstatus)
        /\ thermoIn.htstatus = 0 => hcs = HcsIdle

\* C16 witness: the spa heater with both of its bits set is Heating.
C16_Witness ==
    /\ thpc = "done" /\ thermoIn.address = "spaht" /\ thermoIn.htstatus = 10
    /\ drivers["spaht"]["CLIHCS"] = HcsHeating

\* C17 as stated: for the spa heater, heater setting 2 with bit 0x08 of the
\* heating status set gives mode Auto and heat/cool state AuxHeat.
C17_SpaSolarAsStated ==
    (/\ thpc = "done" /\ thermoIn.address = "spaht" /\ thermoIn.setting = 2
     /\ HasBit(thermoIn.htstatus, 8))
    => (/\ drivers["spaht"]["CLIMD"] = ModeAuto
        /\ drivers["spaht"]["CLIHCS"] = HcsAuxHeat)

\* C17 amended: for the spa heater, heater setting 2 with bit 0x08 of the
\* heating status set and bit 0x02 clear gives mode Auto and heat/cool state
\* AuxHeat.
C17_SpaSolar ==
    (/\ thpc = "done" /\ thermoIn.address = "spaht" /\ thermoIn.setting = 2
     /\ HasBit(thermoIn.htstatus, 8) /\ ~HasBit(thermoIn.htstatus, 2))
    => (/\ drivers["spaht"]["CLIMD"] = ModeAuto
        /\ drivers["spaht"]["CLIHCS"] = HcsAuxHeat)

\* C17 witness: setting 2 and heating status 0x08 on the spa heater.
C17_Witness ==
    /\ thpc = "done" /\ thermoIn.address = "spaht" /\ thermoIn.setting = 2
    /\ thermoIn.htstatus = 8
    /\ drivers["spaht"]["CLIMD"] = ModeAuto
    /\ drivers["spaht"]["CLIHCS"] = HcsAuxHeat

\* The relabelling of a unit change: the uom of every temperature driver,
\* and the tracked unit.
RelabelEvents ==
    {[op |-> "uom", node |-> "controller", driver |-> d] : d \in {"CLITEMP", "GV9"}}
    \cup {[op |-> "uom", node |-> n, driver |-> d] :
            n \in TempAddresses, d \in {"ST", "CLISPH", "CLISPC"}}
    \cup {[op |-> "unit", node |-> "controller", driver |-> ""]}

\* A write of a temperature value.
TemperatureWrite(e) ==
    /\ e.op = "value"
    /\ \/ e.node = "controller" /\ e.driver \in {"CLITEMP", "GV9"}
       \/ e.node \in TempAddresses /\ e.driver \in {"ST", "CLISPH", "CLISPC"}

\* Every relabelling has been made, before every write of a temperature.
RelabelFirst(log) ==
    \A e \in RelabelEvents :
        \E i \in DOMAIN log :
            /\ log[i] = e
            /\ \A j \in DOMAIN log : TemperatureWrite(log[j]) => i < j

\* C18: when update_node_states gets a status document whose unit differs
\* from the tracked unit, it relabels every temperature driver and sets the
\* tracked unit before it writes any temperature of the document, and the
\* tracked unit is the document's unit after the call.
C18_UnitsBeforeValues ==
    [][\A t \in Threads :
          (/\ tpc[t] = "fetched" /\ tpc'[t] # "fetched"
           /\ statusXML[t].present
           /\ "tempunits" \in DOMAIN statusXML[t].temp
           /\ statusXML[t].temp["tempunits"] # currentTempUnit)
          => (/\ currentTempUnit' = statusXML[t].temp["tempunits"]
              /\ RelabelFirst(wlog')
              /\ \A n \in DOMAIN uoms' : \A d \in DOMAIN uoms'[n] :
                    uoms'[n][d] = UomOf(currentTempUnit'))]_vars

\* C18 witness: an update has changed the unit to C and written the air
\* temperature of the document.
C18_Witness ==
    /\ currentTempUnit = UnitC
    /\ \E i, j \in DOMAIN wlog :
          /\ wlog[i].op = "unit"
          /\ wlog[j] = [op |-> "value", node |-> "controller", driver |-> "CLITEMP"]
    /\ drivers["controller"]["CLITEMP"] = 25

C20_CommandOnlyOnSuccess ==
    [][/\ drivers' # drivers =>
            /\ tpc["hub"] = "sent" /\ command.ok
            /\ \A n \in DOMAIN drivers : n # command.address => drivers'[n] = drivers[n]
       /\ (tpc["hub"] = "sent" /\ tpc'["hub"] # "sent" /\ ~command.ok) =>
            drivers' = drivers
       /\ (/\ ncalls' # ncalls /\ command'.name = "SET_SPH"
           /\ SetpointName(command'.address) = "") =>
            (requests' = requests /\ drivers' = drivers /\ tpc' = tpc)
       /\ (uoms' = uoms /\ ids' = ids)]_vars

\* C20 witness: the request of a DON has failed and the handler has
\* returned, the equipment's driver still off.
C20_Witness ==
    /\ requests = 1 /\ ncalls["hub"] = 1 /\ tpc["hub"] = "idle"
    /\ \A n \in DOMAIN drivers : drivers[n]["ST"] = 0

----------------------------------------------------------------------------
(* The claim about the socket of status_listener.                          *)

\* C21: whenever status_listener has terminated, by returning False or by an
\* exception that leaves it, its socket has been closed.
C21_ClosedOnExit ==
    pc \in {"returned", "raised"} => closed

----------------------------------------------------------------------------
(* The claims about the node server, continued.                            *)

\* C22: an update_node_states whose get_status returned None sets the
\* controller's driver GV0 to 0 and changes no other driver of any node, no
\* uom, no node definition and not the tracked unit, and does not raise.
C22_AbsentSnapshot ==
    [][\A t \in Threads :
          (tpc[t] = "fetched" /\ tpc'[t] # "fetched" /\ ~statusXML[t].present)
          => (/\ drivers' = [drivers EXCEPT !["controller"]["GV0"] = 0]
              /\ uoms' = uoms
              /\ ids' = ids
              /\ currentTempUnit' = currentTempUnit
              /\ tpc'[t] = "idle")]_vars

\* C22 witness: after a status document had set the drivers, an update
\* without a document has written GV0, and only GV0.
C22_Witness ==
    /\ wlog = <<[op |-> "value", node |-> "controller", driver |-> "GV0"]>>
    /\ drivers["controller"]["GV0"] = 0
    /\ drivers["controller"]["CLITEMP"] = 78
    /\ drivers["spaht"]["CLISPH"] = 99

----------------------------------------------------------------------------
(* The claim about the probe reply.                                        *)

\* C23: the reply of a successful probe goes through the matching step of a
\* push message: a reply that is one complete line matching the pattern
\* gives exactly one handler invocation, with the element "opmode" and the
\* translated value; a reply that does not match gives no invocation and the
\* listener receives again.
C23_ProbeReplyProcessed ==
    [][(pc = "process" /\ probe = "ok" /\ pc' # "process") =>
          /\ (/\ Decodable(msg) /\ StatusMatch(msg).ok
              /\ StatusMatch(msg).end = Len(msg)) =>
                 /\ Len(calls') = Len(calls) + 1
                 /\ SubSeq(calls', 1, Len(calls)) = calls
                 /\ calls'[Len(calls')] =
                       [seq |-> msgSeq, element |-> <<"o", "p", "m", "o", "d", "e">>,
                        value |-> DocumentedText(StatusMatch(msg).val)]
          /\ ~(Decodable(msg) /\ StatusMatch(msg).ok) =>
                 (calls' = calls /\ pc' = "recv" /\ ~closed')]_vars

----------------------------------------------------------------------------
(* The claim about SET_MODE and the mode derived from a status document.   *)

\* C24: after a SET_MODE command whose request succeeded, the node's CLIMD is
\* the mode update_thermo_drivers derives from the heater setting that the
\* command sent, for every mode value of the command.
C24_SetModeConsistent ==
    [][(/\ tpc["hub"] = "sent" /\ tpc'["hub"] = "idle"
        /\ command.name = "SET_MODE" /\ command.ok)
       => drivers'[command.address]["CLIMD"] = ThermoMode(HeaterSetting(command.value))]_vars

====
